---- MODULE Spec2Model ----
(***************************************************************************)
(* Model of src/swish_funcs.c: run_pipelined_commands (the orchestrator)   *)
(* and run_piped_command (the stage launcher), with one process for the    *)
(* parent and one for each forked child.  The parent takes one step per    *)
(* system call; a child takes one step per iteration of its close-unused   *)
(* loop, one for the segmenter, one for the call of run_piped_command and  *)
(* one for what follows the call.  The calls inside one child step change  *)
(* only that child's descriptor table and memory.                          *)
(*                                                                         *)
(* Endpoints are named by their index in pipe_fds: channel i has its read  *)
(* end at index 2i and its write end at index 2i+1.  Each process has its  *)
(* own descriptor table, modelled as the set of endpoint indices it still  *)
(* holds open.                                                             *)
(***************************************************************************)
EXTENDS Integers, Sequences, FiniteSets, TLC

\* ---------------------------------------------------------------- bounds
MaxTokens == 3      \* longest token sequence handed to the orchestrator
MaxPipes == 2       \* most separator tokens in that sequence
MaxFails == 1       \* most failures injected into the calls of one run
                    \* (a failing pipe() ends the run before any child
                    \* exists and is not counted)

Pipe == "|"
Word == "ls"

VARIABLES
    tokens,     \* the orchestrator's token sequence (strvec_t *tokens)
    num_pipes,  \* int num_pipes
    created,    \* number of successful pipe() calls so far
    ppc,        \* the parent's position in run_pipelined_commands
    pline,      \* source line of the return/exit statement the parent took
    pi,         \* the parent's loop variable i (pipe loop, fork loop)
    pk,         \* the parent's index of the endpoint it closes next
    popen,      \* endpoints open in the parent
    ret,        \* ret_val / the value returned
    nwait,      \* iterations of the wait loop completed
    reaped,     \* stages whose status a wait() has collected
    ch,         \* the children, by stage index
    nfail,      \* number of failed calls so far, pipe() apart (capped at
                \* MaxFails)
    pclosed,    \* endpoints the parent has called close on
    dbl         \* some process has called close on an endpoint it had
                \* already called close on

vars == <<tokens, num_pipes, created, ppc, pline, pi, pk, popen, ret, nwait,
          reaped, ch, nfail, pclosed, dbl>>

pvars == <<ppc, pline, pi, pk, popen, ret, nwait, reaped, num_pipes, created,
           pclosed>>

\* ------------------------------------------------------- string vectors
\* strvec_num_occurrences(vec, s)
NumOccurrences(s, t) == Cardinality({x \in DOMAIN s : s[x] = t})

RECURSIVE FindLastFrom(_, _, _)
FindLastFrom(s, t, x) ==
    IF x = 0 THEN -1
    ELSE IF s[x] = t THEN x - 1
    ELSE FindLastFrom(s, t, x - 1)

\* strvec_find_last(vec, s): 0-based index of the last occurrence, or -1
FindLast(s, t) == FindLastFrom(s, t, Len(s))

\* strvec_take(vec, n): keep the first n elements
Take(s, n) == SubSeq(s, 1, n)

\* strvec_slice(src, dest, start, end): elements start .. end-1, or -1
SliceOK(s, start, end) == 0 <= start /\ start <= end /\ end <= Len(s)
Slice(s, start, end) == SubSeq(s, start + 1, end)

TokenSeqs ==
    {s \in UNION {[1..n -> {Pipe, Word}] : n \in 1..MaxTokens} :
        NumOccurrences(s, Pipe) <= MaxPipes}

\* ------------------------------------------------------------- statuses
NoStatus == [kind |-> "none", code |-> 0]
Exited(c) == [kind |-> "exit", code |-> c]
Signaled == [kind |-> "signal", code |-> 0]

WIFEXITED(s) == s.kind = "exit"
WEXITSTATUS(s) == s.code

\* the else branch of line 250 left out
ChildFailedExitOnly(s) ==
    IF WIFEXITED(s) THEN WEXITSTATUS(s) # 0 ELSE FALSE

\* lines 245-252: does this status set ret_val to -1
ChildFailed(s) ==
    IF WIFEXITED(s) THEN WEXITSTATUS(s) # 0 ELSE TRUE

\* ------------------------------------------------------------ endpoints
Endpoints == 0..(2 * num_pipes - 1)

Bump(n) == IF n < MaxFails THEN n + 1 ELSE n

\* close(pipe_fds[k]) in a process whose open endpoints are open, after n
\* failed calls.  A close of an open descriptor succeeds, or fails leaving
\* the descriptor in an unspecified state.  A close of a descriptor this
\* process no longer holds fails (EBADF).  An index outside the array reads
\* an indeterminate value.
CloseResults(open, k, n) ==
    IF k \in open
    THEN {[ok |-> TRUE, open |-> open \ {k}, nf |-> n]} \cup
         (IF n < MaxFails
          THEN {[ok |-> FALSE, open |-> o, nf |-> n + 1] :
                    o \in {open, open \ {k}}}
          ELSE {})
    ELSE IF k \in Endpoints
    THEN {[ok |-> FALSE, open |-> open, nf |-> Bump(n)]}
    ELSE {[ok |-> b, open |-> open, nf |-> IF b THEN n ELSE Bump(n)] :
              b \in BOOLEAN}

\* the read end of the stage's own channel instead of the previous one
InIdxOwnChannel(i, n) == IF i = 0 THEN -1 ELSE 2 * i

\* lines 104-111: the endpoint indices handed to stage i
InIdx(i, n) == IF i = 0 THEN -1 ELSE 2 * (i - 1)
OutIdx(i, n) ==
    IF i = 0 THEN (2 * (i + 1)) - 1
    ELSE IF i = n THEN -1
    ELSE (2 * (i + 1)) - 1

\* the loop bound counting channels instead of endpoints
CleanupBoundChannels(n) == n

\* line 231: number of endpoints the parent's cleanup loop visits
CleanupBound(n) == 2 * n

\* the calls of close made in one step are a sequence of endpoint indices.
\* Is one of them made on an endpoint the process has called close on
\* before, in an earlier step (closed) or earlier in this one
Repeats(closed, calls) ==
    \E x \in DOMAIN calls :
        \/ calls[x] \in closed
        \/ \E y \in DOMAIN calls : y # x /\ calls[y] = calls[x]

Range(calls) == {calls[x] : x \in DOMAIN calls}

\* if (idx > -1) close(pipes[idx]): the call made, if any
CallIfUsed(idx) == IF idx > -1 THEN <<idx>> ELSE <<>>

\* lines 43-52, 154-164, 178-188, 193-203, 211-221: the calls of a close
\* of both designated endpoints
PairCalls(in, out) == CallIfUsed(in) \o CallIfUsed(out)

\* lines 58-60, 65-67, 232-234: the calls of a close that is repeated when
\* it fails
RetryCalls(idx, bad) ==
    IF idx > -1 THEN (IF bad THEN <<idx, idx>> ELSE <<idx>>) ELSE <<>>

Unborn ==
    [pc |-> "unborn", j |-> 0, k |-> 0, open |-> {}, closed |-> {},
     in_idx |-> -1, out_idx |-> -1, tokens |-> <<>>, cmd |-> <<>>,
     sin |-> -1, sout |-> -1, rv |-> 0, status |-> NoStatus]

Stages == 0..MaxPipes

Init ==
    /\ tokens \in TokenSeqs
    /\ num_pipes = 0
    /\ created = 0
    /\ ppc = "start"
    /\ pline = 0
    /\ pi = 0
    /\ pk = 0
    /\ popen = {}
    /\ ret = 0
    /\ nwait = 0
    /\ reaped = {}
    /\ ch = [c \in Stages |-> Unborn]
    /\ nfail = 0
    /\ pclosed = {}
    /\ dbl = FALSE

\* ================================================================ parent
PReturn(line, val) ==
    /\ ppc' = "returned"
    /\ pline' = line
    /\ ret' = val

\* lines 77-82: count the separators, allocate the endpoint array
Start ==
    /\ ppc = "start"
    /\ num_pipes' = NumOccurrences(tokens, Pipe)
    /\ \/ /\ ppc' = "pipes"
          /\ pi' = 0
          /\ UNCHANGED <<pline, ret, nfail>>
       \/ /\ nfail < MaxFails
          /\ nfail' = nfail + 1
          /\ PReturn(81, -1)
          /\ UNCHANGED pi
    /\ UNCHANGED <<tokens, created, pk, popen, nwait, reaped, ch, pclosed,
                   dbl>>

\* a failing pipe() is ignored and the loop goes on
MakePipeUnchecked ==
    /\ ppc = "pipes"
    /\ pi < num_pipes
    /\ \/ /\ popen' = popen \cup {2 * pi, 2 * pi + 1}
          /\ created' = created + 1
       \/ UNCHANGED <<popen, created>>
    /\ pi' = pi + 1
    /\ UNCHANGED <<tokens, num_pipes, ppc, pk, pline, ret, nwait, reaped, ch,
                   nfail, pclosed, dbl>>

\* lines 84-86: pipe(pipe_fds + 2i)
MakePipe ==
    /\ ppc = "pipes"
    /\ pi < num_pipes
    /\ \/ /\ popen' = popen \cup {2 * pi, 2 * pi + 1}
          /\ created' = created + 1
          /\ pi' = pi + 1
          /\ UNCHANGED <<ppc, pk>>
       \/ /\ ppc' = "pipe_cleanup"
          /\ pk' = 0
          /\ UNCHANGED <<popen, created, pi>>
    /\ UNCHANGED <<tokens, num_pipes, pline, ret, nwait, reaped, ch, nfail,
                   pclosed, dbl>>

\* line 84: the pipe loop ends, line 102 starts the fork loop at i = num_pipes
PipesDone ==
    /\ ppc = "pipes"
    /\ pi = num_pipes
    /\ ppc' = "fork"
    /\ UNCHANGED <<tokens, num_pipes, created, pline, pi, pk, popen, ret,
                   nwait, reaped, ch, nfail, pclosed, dbl>>

\* lines 87-96: after pipe() number pi failed, close endpoints 0 .. 2*pi-1;
\* a failing close returns at once
PipeCleanup ==
    /\ ppc = "pipe_cleanup"
    /\ pk < 2 * pi
    /\ \E r \in CloseResults(popen, pk, nfail) :
          /\ popen' = r.open
          /\ nfail' = r.nf
          /\ IF r.ok
             THEN /\ pk' = pk + 1
                  /\ UNCHANGED <<ppc, pline, ret>>
             ELSE /\ PReturn(IF pk % 2 = 0 THEN 90 ELSE 94, -1)
                  /\ UNCHANGED pk
    /\ pclosed' = pclosed \cup {pk}
    /\ dbl' = (dbl \/ Repeats(pclosed, <<pk>>))
    /\ UNCHANGED <<tokens, num_pipes, created, pi, nwait, reaped, ch>>

\* lines 97-98
PipeCleanupDone ==
    /\ ppc = "pipe_cleanup"
    /\ pk = 2 * pi
    /\ PReturn(98, -1)
    /\ UNCHANGED <<tokens, num_pipes, created, pi, pk, popen, nwait, reaped,
                   ch, nfail, pclosed, dbl>>

\* lines 102-113, 125: fork the child of stage pi; it inherits the parent's
\* descriptors and a copy of its memory
Fork ==
    /\ ppc = "fork"
    /\ pi >= 0
    /\ \/ /\ ch' = [ch EXCEPT ![pi] =
                      [Unborn EXCEPT !.pc = "close_unused",
                                     !.open = popen,
                                     !.in_idx = InIdx(pi, num_pipes),
                                     !.out_idx = OutIdx(pi, num_pipes),
                                     !.tokens = tokens]]
          /\ pi' = pi - 1
          /\ UNCHANGED <<ppc, pk, nfail>>
       \/ /\ nfail < MaxFails
          /\ nfail' = nfail + 1
          /\ ppc' = "fork_cleanup"
          /\ pk' = 0
          /\ UNCHANGED <<ch, pi>>
    /\ UNCHANGED <<tokens, num_pipes, created, pline, popen, ret, nwait,
                   reaped, pclosed, dbl>>

\* line 102: the fork loop ends
ForkDone ==
    /\ ppc = "fork"
    /\ pi < 0
    /\ ppc' = "cleanup"
    /\ pk' = 0
    /\ UNCHANGED <<tokens, num_pipes, created, pline, pi, popen, ret, nwait,
                   reaped, ch, nfail, pclosed, dbl>>

PExit(line) ==
    /\ ppc' = "exited"
    /\ pline' = line
    /\ popen' = {}

\* lines 116-123: fork failed in the parent: close the endpoints, a failing
\* close exits the process
ForkCleanup ==
    /\ ppc = "fork_cleanup"
    /\ pk < 2 * num_pipes
    /\ \E r \in CloseResults(popen, pk, nfail) :
          /\ nfail' = r.nf
          /\ IF r.ok
             THEN /\ pk' = pk + 1
                  /\ popen' = r.open
                  /\ UNCHANGED <<ppc, pline>>
             ELSE /\ PExit(IF pk % 2 = 0 THEN 118 ELSE 121)
                  /\ UNCHANGED pk
    /\ pclosed' = pclosed \cup {pk}
    /\ dbl' = (dbl \/ Repeats(pclosed, <<pk>>))
    /\ UNCHANGED <<tokens, num_pipes, created, pi, ret, nwait, reaped, ch>>

\* line 124: exit(1) in the parent
ForkCleanupDone ==
    /\ ppc = "fork_cleanup"
    /\ pk = 2 * num_pipes
    /\ PExit(124)
    /\ UNCHANGED <<tokens, num_pipes, created, pi, pk, ret, nwait, reaped, ch,
                   nfail, pclosed, dbl>>

\* lines 231-237: close every endpoint in the parent; a failing close is
\* retried once and the function returns -1
ParentCleanup ==
    /\ ppc = "cleanup"
    /\ pk < CleanupBound(num_pipes)
    /\ \E r \in CloseResults(popen, pk, nfail) :
          /\ IF r.ok
             THEN /\ popen' = r.open
                  /\ nfail' = r.nf
                  /\ pk' = pk + 1
                  /\ UNCHANGED <<ppc, pline, ret>>
             ELSE \E r2 \in CloseResults(r.open, pk, r.nf) :
                     /\ popen' = r2.open
                     /\ nfail' = r2.nf
                     /\ PReturn(236, -1)
                     /\ UNCHANGED pk
          /\ dbl' = (dbl \/ Repeats(pclosed, RetryCalls(pk, ~r.ok)))
    /\ pclosed' = pclosed \cup {pk}
    /\ UNCHANGED <<tokens, num_pipes, created, pi, nwait, reaped, ch>>

\* lines 238-243: the cleanup loop ends, ret_val = 0
ParentCleanupDone ==
    /\ ppc = "cleanup"
    /\ pk >= CleanupBound(num_pipes)
    /\ ppc' = "wait"
    /\ nwait' = 0
    /\ ret' = 0
    /\ UNCHANGED <<tokens, num_pipes, created, pline, pi, pk, popen, reaped,
                   ch, nfail, pclosed, dbl>>

\* lines 243-253: wait() collects one terminated child, in any order
Wait ==
    /\ ppc = "wait"
    /\ nwait < num_pipes + 1
    /\ \E c \in Stages :
          /\ ch[c].pc = "terminated"
          /\ c \notin reaped
          /\ reaped' = reaped \cup {c}
          /\ ret' = IF ChildFailed(ch[c].status) THEN -1 ELSE ret
    /\ nwait' = nwait + 1
    /\ UNCHANGED <<tokens, num_pipes, created, ppc, pline, pi, pk, popen, ch,
                   nfail, pclosed, dbl>>

\* lines 255-256
Return ==
    /\ ppc = "wait"
    /\ nwait = num_pipes + 1
    /\ PReturn(256, ret)
    /\ UNCHANGED <<tokens, num_pipes, created, pi, pk, popen, nwait, reaped,
                   ch, nfail, pclosed, dbl>>

\* ============================================================== children
\* exit(code) in the child of stage c: every descriptor is released
ChildExit(c, code) ==
    [Unborn EXCEPT !.pc = "terminated",
                   !.in_idx = ch[c].in_idx,
                   !.out_idx = ch[c].out_idx,
                   !.status = Exited(code)]

\* lines 128, 137: (k != keep) && close(pipe_fds[k]) == -1
CloseUnless(open, k, keep, n) ==
    IF k = keep
    THEN {[ok |-> TRUE, open |-> open, nf |-> n]}
    ELSE CloseResults(open, k, n)

\* the call of close it makes, if any
CallUnless(k, keep) == IF k = keep THEN <<>> ELSE <<k>>

\* lines 127-129, 137-138: one iteration of the close-unused loop; a failing
\* close starts the sweep at the index that failed
CloseUnused(c) ==
    /\ ch[c].pc = "close_unused"
    /\ ch[c].j < num_pipes
    /\ LET j == ch[c].j
           first == CallUnless(2 * j, ch[c].in_idx)
           both == first \o CallUnless(2 * j + 1, ch[c].out_idx)
       IN  \E r1 \in CloseUnless(ch[c].open, 2 * j, ch[c].in_idx, nfail) :
             IF ~r1.ok
             THEN /\ nfail' = r1.nf
                  /\ dbl' = (dbl \/ Repeats(ch[c].closed, first))
                  /\ ch' = [ch EXCEPT ![c].open = r1.open,
                                      ![c].closed = @ \cup Range(first),
                                      ![c].k = 2 * j,
                                      ![c].pc = "sweep"]
             ELSE \E r2 \in CloseUnless(r1.open, 2 * j + 1, ch[c].out_idx,
                                        r1.nf) :
                     /\ nfail' = r2.nf
                     /\ dbl' = (dbl \/ Repeats(ch[c].closed, both))
                     /\ ch' = [ch EXCEPT ![c].open = r2.open,
                                         ![c].closed = @ \cup Range(both),
                                         ![c].j = IF r2.ok THEN j + 1 ELSE j,
                                         ![c].k = IF r2.ok THEN @
                                                  ELSE 2 * j + 1,
                                         ![c].pc = IF r2.ok THEN @
                                                   ELSE "sweep"]
    /\ UNCHANGED <<tokens, pvars>>

\* lines 130-134, 139-143: the ways the sweep can go when it closes
\* endpoints k .. 2*num_pipes-1 and stops at the first failing close: the
\* failure count it ends with and the calls of close it made
RECURSIVE SweepRuns(_, _, _)
SweepRuns(open, k, n) ==
    IF k >= 2 * num_pipes THEN {[nf |-> n, calls |-> <<>>]}
    ELSE UNION {IF r.ok
                THEN {[nf |-> t.nf, calls |-> <<k>> \o t.calls] :
                          t \in SweepRuns(r.open, k + 1, r.nf)}
                ELSE {[nf |-> r.nf, calls |-> <<k>>]} :
                    r \in CloseResults(open, k, n)}

\* the sweep ends in exit(0)
SweepExitZero(c) ==
    /\ ch[c].pc = "sweep"
    /\ \E t \in SweepRuns(ch[c].open, ch[c].k, nfail) :
          /\ nfail' = t.nf
          /\ dbl' = (dbl \/ Repeats(ch[c].closed, t.calls))
    /\ ch' = [ch EXCEPT ![c] = ChildExit(c, 0)]
    /\ UNCHANGED <<tokens, pvars>>

\* lines 130-135, 139-144: sweep, then exit(1)
Sweep(c) ==
    /\ ch[c].pc = "sweep"
    /\ \E t \in SweepRuns(ch[c].open, ch[c].k, nfail) :
          /\ nfail' = t.nf
          /\ dbl' = (dbl \/ Repeats(ch[c].closed, t.calls))
    /\ ch' = [ch EXCEPT ![c] = ChildExit(c, 1)]
    /\ UNCHANGED <<tokens, pvars>>

\* the separator itself is kept when the commands are chopped off
RECURSIVE TrimKeepSeparator(_, _, _)
TrimKeepSeparator(s, n, end) ==
    IF n = 0 THEN [ok |-> TRUE, toks |-> s, end |-> end]
    ELSE LET idx == FindLast(s, Pipe)
         IN  IF idx = -1
             THEN [ok |-> FALSE, toks |-> <<>>, end |-> end]
             ELSE TrimKeepSeparator(Take(s, idx + 1), n - 1, idx + 1)

\* lines 148-170: chop the last n commands off the child's copy of tokens.
\* ok is FALSE when a separator is missing; end is end_target_token.
RECURSIVE Trim(_, _, _)
Trim(s, n, end) ==
    IF n = 0 THEN [ok |-> TRUE, toks |-> s, end |-> end]
    ELSE LET idx == FindLast(s, Pipe)
         IN  IF idx = -1
             THEN [ok |-> FALSE, toks |-> <<>>, end |-> end]
             ELSE Trim(Take(s, idx), n - 1, idx)

\* the segmenter truncates the parent's token sequence, as it would if the
\* child shared the vector with the parent
SegmentShared(c) ==
    /\ ch[c].pc = "close_unused"
    /\ ch[c].j = num_pipes
    /\ LET t == Trim(ch[c].tokens, num_pipes - c, Len(ch[c].tokens))
       IN  /\ tokens' = t.toks
           /\ ch' = [ch EXCEPT ![c].tokens = t.toks,
                               ![c].cmd = t.toks,
                               ![c].pc = "rpc"]
    /\ UNCHANGED <<pvars, nfail, dbl>>

\* lines 148-190: the stage segmenter; cmd is the vector handed to
\* run_piped_command
Segment(c) ==
    /\ ch[c].pc = "close_unused"
    /\ ch[c].j = num_pipes
    /\ LET t == Trim(ch[c].tokens, num_pipes - c, Len(ch[c].tokens))
           remaining == NumOccurrences(t.toks, Pipe)
           idx == FindLast(t.toks, Pipe) + 1
       IN  IF ~t.ok
           THEN /\ ch' = [ch EXCEPT ![c].tokens = <<>>,
                                    ![c].pc = "seg_failed"]
                /\ UNCHANGED nfail
           ELSE IF remaining > 0
           THEN \/ /\ SliceOK(t.toks, idx, t.end)
                   /\ ch' = [ch EXCEPT ![c].tokens = t.toks,
                                       ![c].cmd = Slice(t.toks, idx, t.end),
                                       ![c].pc = "rpc"]
                   /\ UNCHANGED nfail
                \/ /\ \/ ~SliceOK(t.toks, idx, t.end)
                      \/ nfail < MaxFails
                   /\ nfail' = Bump(nfail)
                   /\ ch' = [ch EXCEPT ![c].tokens = t.toks,
                                       ![c].cmd = <<>>,
                                       ![c].pc = "seg_failed"]
           ELSE /\ ch' = [ch EXCEPT ![c].tokens = t.toks,
                                    ![c].cmd = t.toks,
                                    ![c].pc = "rpc"]
                /\ UNCHANGED nfail
    /\ UNCHANGED <<tokens, pvars, dbl>>

\* dup2(pipe_fds[k], fd) when k > -1: succeeds on an open descriptor unless
\* the call fails; an index outside the array reads an indeterminate value
DupResults(open, k, n) ==
    IF k = -1
    THEN {[ok |-> TRUE, nf |-> n]}
    ELSE IF k \in open
    THEN {[ok |-> TRUE, nf |-> n]} \cup
         (IF n < MaxFails THEN {[ok |-> FALSE, nf |-> n + 1]} ELSE {})
    ELSE IF k \in Endpoints
    THEN {[ok |-> FALSE, nf |-> Bump(n)]}
    ELSE {[ok |-> b, nf |-> IF b THEN n ELSE Bump(n)] : b \in BOOLEAN}

\* close(pipe_fds[idx]) when idx > -1, whatever it returns
CloseIfUsed(open, idx, n) ==
    IF idx > -1 THEN CloseResults(open, idx, n)
    ELSE {[ok |-> TRUE, open |-> open, nf |-> n]}

\* the write endpoint is left alone
ClosePairReadOnly(open, in, out, n) == CloseIfUsed(open, in, n)

\* lines 43-52, and the caller's 154-164, 178-188, 193-203, 211-221: close
\* the read endpoint, then the write endpoint, ignoring failures
ClosePair(open, in, out, n) ==
    UNION {CloseIfUsed(r1.open, out, r1.nf) : r1 \in CloseIfUsed(open, in, n)}

\* lines 57-63, 64-70: a close that is repeated once when it fails; bad says
\* whether the first close failed
CloseRetry(open, idx, n) ==
    IF idx > -1
    THEN UNION {IF r.ok
                THEN {[bad |-> FALSE, open |-> r.open, nf |-> r.nf]}
                ELSE {[bad |-> TRUE, open |-> r2.open, nf |-> r2.nf] :
                          r2 \in CloseResults(r.open, idx, r.nf)} :
                    r \in CloseResults(open, idx, n)}
    ELSE {[bad |-> FALSE, open |-> open, nf |-> n]}

\* lines 56, 61, 68, 71: the value run_piped_command returns after its closes
OkRetVal(bad1, bad2) == IF bad1 \/ bad2 THEN 1 ELSE 0

\* run_command(tokens): "exec" replaces the process image and never
\* returns; otherwise it returns -1, or some other value
RunCommandResults == {"exec", "minus1", "other"}

\* an outcome of run_piped_command: calls are the calls of close it made
RpcResult(pc, open, sin, sout, rv, nf, calls) ==
    [pc |-> pc, open |-> open, sin |-> sin, sout |-> sout, rv |-> rv,
     nf |-> nf, calls |-> calls]

\* lines 41-71: run_command and what follows it in run_piped_command
RpcRun(open, in, out, n, res) ==
    IF res = "exec"
    THEN {RpcResult("running", open, in, out, 0, n, <<>>)}
    ELSE IF res = "minus1"
    THEN {RpcResult("rpc_returned", r.open, in, out, -1, r.nf,
                    PairCalls(in, out)) :
              r \in ClosePair(open, in, out, n)}
    ELSE UNION {{RpcResult("rpc_returned", r2.open, in, out,
                           OkRetVal(r1.bad, r2.bad), r2.nf,
                           RetryCalls(in, r1.bad) \o
                               RetryCalls(out, r2.bad)) :
                     r2 \in CloseRetry(r1.open, out, r1.nf)} :
                   r1 \in CloseRetry(open, in, n)}

\* lines 26-72: run_piped_command in a child whose open endpoints are open;
\* sin and sout are the endpoints standard input and output were redirected
\* to, rv the value returned (pc "running": the call never returned)
RpcResults(open, in, out, n) ==
    UNION {IF ~d1.ok
           THEN {RpcResult("rpc_returned", open, -1, -1, -1, d1.nf, <<>>)}
           ELSE UNION {IF ~d2.ok
                       THEN {RpcResult("rpc_returned", open, in, -1, -1,
                                       d2.nf, <<>>)}
                       ELSE UNION {RpcRun(open, in, out, d2.nf, res) :
                                       res \in RunCommandResults} :
                           d2 \in DupResults(open, out, d1.nf)} :
               d1 \in DupResults(open, in, n)}

\* lines 191, 209: the child calls run_piped_command(cmd, pipe_fds, ...)
RunPipedCommand(c) ==
    /\ ch[c].pc = "rpc"
    /\ \E r \in RpcResults(ch[c].open, ch[c].in_idx, ch[c].out_idx, nfail) :
          /\ nfail' = r.nf
          /\ dbl' = (dbl \/ Repeats(ch[c].closed, r.calls))
          /\ ch' = [ch EXCEPT ![c].pc = r.pc,
                              ![c].open = r.open,
                              ![c].closed = @ \cup Range(r.calls),
                              ![c].sin = r.sin,
                              ![c].sout = r.sout,
                              ![c].rv = r.rv,
                              ![c].tokens = IF r.pc = "running" THEN <<>>
                                            ELSE @,
                              ![c].cmd = IF r.pc = "running" THEN <<>> ELSE @]
    /\ UNCHANGED <<tokens, pvars>>

\* lines 191-207, 209-226: run_piped_command returned: on -1 the child
\* closes its designated endpoints and exits with 1, otherwise it exits
\* with 0
AfterRpc(c) ==
    /\ ch[c].pc = "rpc_returned"
    /\ IF ch[c].rv = -1
       THEN /\ \E r \in ClosePair(ch[c].open, ch[c].in_idx, ch[c].out_idx,
                                  nfail) :
                  nfail' = r.nf
            /\ dbl' = (dbl \/ Repeats(ch[c].closed,
                                      PairCalls(ch[c].in_idx, ch[c].out_idx)))
            /\ ch' = [ch EXCEPT ![c] = ChildExit(c, 1)]
       ELSE /\ ch' = [ch EXCEPT ![c] = ChildExit(c, 0)]
            /\ UNCHANGED <<nfail, dbl>>
    /\ UNCHANGED <<tokens, pvars>>

\* lines 153-165, 177-189: the segmenter failed: the child closes its
\* designated endpoints and exits with 1
SegmentFailed(c) ==
    /\ ch[c].pc = "seg_failed"
    /\ \E r \in ClosePair(ch[c].open, ch[c].in_idx, ch[c].out_idx, nfail) :
          nfail' = r.nf
    /\ dbl' = (dbl \/ Repeats(ch[c].closed,
                              PairCalls(ch[c].in_idx, ch[c].out_idx)))
    /\ ch' = [ch EXCEPT ![c] = ChildExit(c, 1)]
    /\ UNCHANGED <<tokens, pvars>>

\* the program the stage was replaced by terminates, with any status
ProgramStatuses == {Exited(0), Exited(1), Signaled}

ProgExit(c) ==
    /\ ch[c].pc = "running"
    /\ \E s \in ProgramStatuses :
          ch' = [ch EXCEPT ![c] = [ChildExit(c, 0) EXCEPT !.status = s]]
    /\ UNCHANGED <<tokens, pvars, nfail, dbl>>

Child(c) ==
    \/ CloseUnused(c)
    \/ Sweep(c)
    \/ Segment(c)
    \/ SegmentFailed(c)
    \/ RunPipedCommand(c)
    \/ AfterRpc(c)
    \/ ProgExit(c)

Parent ==
    \/ Start
    \/ MakePipe
    \/ PipesDone
    \/ PipeCleanup
    \/ PipeCleanupDone
    \/ Fork
    \/ ForkDone
    \/ ForkCleanup
    \/ ForkCleanupDone
    \/ ParentCleanup
    \/ ParentCleanupDone
    \/ Wait
    \/ Return

Next == Parent \/ \E c \in Stages : Child(c)

Spec == Init /\ [][Next]_vars

\* ================================================================ claims
Born(c) == ch[c].pc # "unborn"
Terminated(c) == ch[c].pc = "terminated"
Succeeded(c) == Terminated(c) /\ ch[c].status = Exited(0)
StageIds == 0..num_pipes

\* the parent returned from the statement after the wait loop, which it
\* reaches only when malloc, every pipe, every fork and every close of its
\* cleanup loop succeeded
ReturnedAfterWait == ppc = "returned" /\ pline = 256

\* C1: when channel creation, forking and the parent's closes all succeed,
\* the call returns after all N+1 stages have terminated, and it returns 0
\* if and only if every stage exited normally with status 0.
C1_ResultIffAllSucceeded ==
    ReturnedAfterWait =>
        /\ \A c \in StageIds : Terminated(c)
        /\ ret \in {0, -1}
        /\ ret = 0 <=> \A c \in StageIds : Succeeded(c)

C1_Witness ==
    /\ ReturnedAfterWait
    /\ num_pipes = 2
    /\ ret = -1
    /\ ch[1].status = Signaled
    /\ Succeeded(0)
    /\ Succeeded(2)

\* C2: whenever run_pipelined_commands has returned, every stage context it
\* spawned has terminated and has been reaped.
C2_AllReapedOnReturn ==
    ppc = "returned" =>
        \A c \in Stages : Born(c) => Terminated(c) /\ c \in reaped

\* does a live context still hold endpoint e
ParentHolds(e) == ppc # "exited" /\ e \in popen
ChildHolds(c, e) == e \in ch[c].open \/ ch[c].sin = e \/ ch[c].sout = e

\* every context is past the code that closes its endpoints
AllPastClosing ==
    /\ ppc \in {"wait", "returned", "exited"}
    /\ \A c \in Stages : ch[c].pc \in {"unborn", "running", "terminated"}

\* C3: once stage i has terminated and every context has run its closing
\* code, no live context holds the write end of channel i, so the read of
\* stage i+1 can reach end-of-stream.
C3_NoStrayWriter ==
    \A i \in 0..(num_pipes - 1) :
        (Terminated(i) /\ AllPastClosing) =>
            /\ ~ParentHolds(2 * i + 1)
            /\ \A c \in Stages : ~ChildHolds(c, 2 * i + 1)

\* the endpoints stage c needs: the read end of channel c-1 and the write
\* end of channel c
Needed(c) ==
    (IF c > 0 THEN {2 * (c - 1)} ELSE {}) \cup
    (IF c < num_pipes THEN {2 * c + 1} ELSE {})

\* the child finished its close-unused loop without error and has not yet
\* closed a designated endpoint
LoopDone(c) ==
    \/ ch[c].pc = "close_unused" /\ ch[c].j = num_pipes
    \/ ch[c].pc \in {"rpc", "seg_failed", "running"}

\* C4: a child that finished its close-unused loop without error holds
\* exactly the read end of the previous channel (if any) and the write end
\* of its own channel (if any); once the parent's cleanup loop has
\* completed the parent holds no endpoint.
C4_EndpointHygiene ==
    /\ \A c \in Stages : LoopDone(c) => ch[c].open = Needed(c)
    /\ (ppc = "wait" \/ ReturnedAfterWait) => popen = {}

C4_Witness ==
    /\ num_pipes = 2
    /\ ppc = "wait"
    /\ popen = {}
    /\ ch[0].pc = "running" /\ ch[0].open = {1}
    /\ ch[1].pc = "running" /\ ch[1].open = {0, 3}
    /\ ch[2].pc = "running" /\ ch[2].open = {2}

\* C5: with no separator the single stage is launched with both endpoint
\* indices equal to -1 and redirects neither standard stream.
C5_NoPipeNoRedirection ==
    \A c \in Stages :
        (Born(c) /\ num_pipes = 0) =>
            /\ ch[c].in_idx = -1
            /\ ch[c].out_idx = -1
            /\ ch[c].sin = -1
            /\ ch[c].sout = -1

\* no call has failed so far
NoCallFailed == nfail = 0 /\ ppc # "pipe_cleanup" /\ pline \notin {90, 94, 98}

\* C6: when all N+1 stages exit with 0 and no call fails, the call returns
\* 0, exactly N channels were created, and no endpoint is open in the
\* parent when it returns.
C6_NoLeakOnSuccess ==
    (ppc = "returned" /\ NoCallFailed /\ \A c \in StageIds : Succeeded(c)) =>
        /\ ret = 0
        /\ created = num_pipes
        /\ popen = {}

C6_Witness ==
    /\ ppc = "returned"
    /\ NoCallFailed
    /\ num_pipes = 2
    /\ \A c \in StageIds : Succeeded(c)
    /\ ret = 0
    /\ created = 2
    /\ popen = {}

\* stage f exited with a non-zero status and every other stage with 0
OnlyFailure(f) ==
    /\ Terminated(f)
    /\ WIFEXITED(ch[f].status)
    /\ WEXITSTATUS(ch[f].status) # 0
    /\ \A c \in StageIds \ {f} : Succeeded(c)

\* C7: for N >= 1, when exactly one stage exits non-zero and the others
\* exit 0, the result is -1 and the call has not returned before reaping
\* every stage.
C7_OneFailureNoEarlyReturn ==
    (ppc = "returned" /\ num_pipes >= 1 /\ \E f \in StageIds : OnlyFailure(f))
        => ret = -1 /\ \A c \in StageIds : c \in reaped

\* a separator first, last, or next to another separator
Malformed(s) ==
    \/ s[1] = Pipe
    \/ s[Len(s)] = Pipe
    \/ \E x \in 1..(Len(s) - 1) : s[x] = Pipe /\ s[x + 1] = Pipe

\* C8: a malformed token sequence spawns no context and the call returns -1.
C8_MalformedRejected ==
    Malformed(tokens) =>
        /\ \A c \in Stages : ~Born(c)
        /\ ppc = "returned" => ret = -1

\* C9: when the call returns because a pipe() failed, every endpoint created
\* before is closed in the parent.
C9_PartialAllocationClosesAll ==
    (ppc = "returned" /\ pline \in {90, 94, 98}) => popen = {}

\* a fork() of the call has failed
ForkFailed == ppc = "fork_cleanup" \/ pline \in {118, 121, 124}

\* C10: after a fork() failed the parent stays alive, and when the call is
\* over it has returned -1 with every spawned context reaped.
C10_SpawnFailureReturnsFailure ==
    ForkFailed =>
        /\ ppc # "exited"
        /\ ppc = "returned" =>
              /\ ret = -1
              /\ \A c \in Stages : Born(c) => c \in reaped

\* C11: when a close in the parent's cleanup loop fails the loop still
\* closes every later endpoint, so the parent is left holding no endpoint
\* other than the one whose close failed.
C11_TeardownFullSweep ==
    (ppc = "returned" /\ pline = 236) => popen \subseteq {pk}

\* C12: run_piped_command returns only 0 or -1, and a child whose close of a
\* designated endpoint failed after run_command reported no failure does not
\* exit with status 0.
C12_FailedCloseIsStageFailure ==
    [][\A c \in Stages :
          /\ ch'[c].pc = "rpc_returned" => ch'[c].rv \in {0, -1}
          /\ (ch[c].pc = "rpc_returned" /\ ch[c].rv # 0)
                 => ch'[c].status # Exited(0)]_vars

\* ------------------------------------------- runs on well-formed input
\* A well-formed sequence has no separator first, last, or next to another
\* separator.  Its non-separator tokens are given a different name at every
\* position, so that the slices of two stages can be told apart.
MaxWellFormedTokens == 5

Words == <<"ls", "grep", "sort", "uniq", "wc", "cat", "head">>

WordAt(p) == Words[((p - 1) % Len(Words)) + 1]

Named(s) == [p \in DOMAIN s |-> IF s[p] = Pipe THEN Pipe ELSE WordAt(p)]

WellFormedSeqs ==
    {Named(s) : s \in
        {t \in UNION {[1..n -> {Pipe, Word}] : n \in 1..MaxWellFormedTokens} :
            NumOccurrences(t, Pipe) <= MaxPipes /\ ~Malformed(t)}}

InitWellFormed ==
    /\ tokens \in WellFormedSeqs
    /\ num_pipes = 0
    /\ created = 0
    /\ ppc = "start"
    /\ pline = 0
    /\ pi = 0
    /\ pk = 0
    /\ popen = {}
    /\ ret = 0
    /\ nwait = 0
    /\ reaped = {}
    /\ ch = [c \in Stages |-> Unborn]
    /\ nfail = 0
    /\ pclosed = {}
    /\ dbl = FALSE

SpecWellFormed == InitWellFormed /\ [][Next]_vars

\* the position of the first separator of s, or Len(s) + 1
FirstPipe(s) ==
    CHOOSE p \in 1..(Len(s) + 1) :
        /\ p = Len(s) + 1 \/ s[p] = Pipe
        /\ \A q \in 1..(p - 1) : s[q] # Pipe

\* the i-th maximal run of non-separator tokens of s, counted from 0
RECURSIVE StageRun(_, _)
StageRun(s, i) ==
    IF i = 0 THEN SubSeq(s, 1, FirstPipe(s) - 1)
    ELSE StageRun(SubSeq(s, FirstPipe(s) + 1, Len(s)), i - 1)

\* the child of stage c is calling, or has called, run_piped_command
Launching(c) == ch[c].pc \in {"rpc", "rpc_returned"}

\* C13: for a well-formed token sequence, the slice child i hands to
\* run_piped_command is the i-th maximal run of non-separator tokens, it
\* holds no separator, and the slices of the N+1 children together hold
\* every non-separator token exactly once.
C13_SegmentationCorrect ==
    /\ \A c \in Stages :
          Launching(c) =>
              /\ ch[c].cmd = StageRun(tokens, c)
              /\ \A x \in DOMAIN ch[c].cmd : ch[c].cmd[x] # Pipe
    /\ (\A c \in StageIds : Launching(c)) =>
          \A p \in DOMAIN tokens :
              tokens[p] # Pipe =>
                  Cardinality({c \in StageIds :
                                  \E x \in DOMAIN ch[c].cmd :
                                      ch[c].cmd[x] = tokens[p]}) = 1

C13_Witness ==
    /\ num_pipes = 2
    /\ Len(tokens) = 5
    /\ \A c \in StageIds : ch[c].pc = "rpc"
    /\ ch[0].cmd = <<WordAt(1)>>
    /\ ch[1].cmd = <<WordAt(3)>>
    /\ ch[2].cmd = <<WordAt(5)>>

\* run_piped_command returned -1 in child c after both redirections were
\* made, that is, because run_command returned -1 (line 41)
RunCommandFailed(c) ==
    /\ ch[c].pc = "rpc_returned"
    /\ ch[c].rv = -1
    /\ ch[c].sin = ch[c].in_idx
    /\ ch[c].sout = ch[c].out_idx

\* C14: when run_command reports failure in stage i, run_piped_command has
\* closed the stage's designated endpoints by the time it returns -1 (they
\* are released unless a close itself failed), the child's next step is to
\* exit with a non-zero status, and that step changes nothing in the parent
\* or in another child.
C14_DelegationFailurePath ==
    [][\A c \in Stages :
          /\ (ch[c].pc = "rpc" /\ RunCommandFailed(c)' /\ nfail' = 0)
                 => ch'[c].open \cap {ch[c].in_idx, ch[c].out_idx} = {}
          /\ (RunCommandFailed(c) /\ ch'[c] # ch[c])
                 => /\ ch'[c].pc = "terminated"
                    /\ WIFEXITED(ch'[c].status)
                    /\ WEXITSTATUS(ch'[c].status) # 0
                    /\ UNCHANGED <<tokens, pvars>>
                    /\ \A d \in Stages \ {c} : ch'[d] = ch[d]]_vars

C14_Witness ==
    /\ num_pipes = 2
    /\ RunCommandFailed(1)
    /\ ch[1].in_idx = 0
    /\ ch[1].out_idx = 3
    /\ ch[1].open = {}
    /\ nfail = 0
    /\ ppc = "wait"
    /\ ch[0].pc = "running"

\* the call returned because the endpoint array or a channel could not be
\* created
AllocationFailed == ppc = "returned" /\ pline \in {81, 90, 94, 98}

\* C15: a context is spawned only after all N channels were created, and a
\* call that cannot create the endpoint array or a channel returns -1
\* having spawned no context and waited for none.
C15_ChannelsBeforeContexts ==
    /\ \A c \in Stages : Born(c) => created = num_pipes
    /\ ppc = "pipe_cleanup" => \A c \in Stages : ~Born(c)
    /\ AllocationFailed =>
          /\ ret = -1
          /\ \A c \in Stages : ~Born(c)
          /\ nwait = 0
          /\ reaped = {}

C15_Witness ==
    /\ AllocationFailed
    /\ pline = 98
    /\ num_pipes = 2
    /\ created = 1
    /\ ret = -1
    /\ \A c \in Stages : ~Born(c)

\* the contexts spawned so far
Spawned == {c \in Stages : Born(c)}

\* C16: contexts are spawned for stage N first and stage 0 last, one for
\* each stage; when no fork failed and the fork loop is over there are
\* exactly N+1 of them; and when the call has returned the parent has waited
\* as many times as it has spawned contexts.
C16_ExactlyOnceFanOut ==
    /\ Spawned \subseteq StageIds
    /\ \A c \in Spawned : \A d \in StageIds : d > c => d \in Spawned
    /\ ppc \in {"cleanup", "wait"} => Spawned = StageIds
    /\ (ppc = "returned" /\ ~AllocationFailed) => Spawned = StageIds
    /\ ppc = "returned" => nwait = Cardinality(Spawned)

\* run_piped_command returned -1 in child c because a dup2 failed (lines
\* 29-31, 35-37): a redirection the stage needs was not made
DupFailed(c) ==
    /\ ch[c].pc = "rpc_returned"
    /\ ch[c].rv = -1
    /\ ~RunCommandFailed(c)

\* the setup of child c has failed: a close of an unneeded endpoint, a
\* redirection, or the segmenter
SetupFailed(c) == ch[c].pc \in {"sweep", "seg_failed"} \/ DupFailed(c)

\* C17: a call that fails while child i closes its unneeded endpoints or
\* segments its tokens puts the child on a failure path, and a call that
\* fails inside run_piped_command makes it return a non-zero value; a child
\* on a failure path of its setup (failed close, failed dup2, failed
\* segmenter) next terminates with a non-zero exit status, without
\* launching its program, and that step changes nothing in the parent or in
\* another child.
C17_SetupFailureIsolated ==
    [][\A c \in Stages :
          /\ (ch[c].pc = "close_unused" /\ ch'[c] # ch[c] /\ nfail' > nfail)
                 => ch'[c].pc \in {"sweep", "seg_failed"}
          /\ (ch[c].pc = "rpc" /\ ch'[c] # ch[c] /\ nfail' > nfail)
                 => ch'[c].pc = "rpc_returned" /\ ch'[c].rv # 0
          /\ (SetupFailed(c) /\ ch'[c] # ch[c])
                 => /\ ch'[c].pc = "terminated"
                    /\ WIFEXITED(ch'[c].status)
                    /\ WEXITSTATUS(ch'[c].status) # 0
                    /\ UNCHANGED <<tokens, pvars>>
                    /\ \A d \in Stages \ {c} : ch'[d] = ch[d]]_vars

C17_Witness ==
    /\ num_pipes = 2
    /\ DupFailed(1)
    /\ ch[1].sin = 0
    /\ ch[1].sout = -1
    /\ ch[1].out_idx = 3
    /\ ch[0].pc = "running"
    /\ ch[2].pc = "running"
    /\ ppc = "wait"

\* C18: a stage whose program has been launched holds none of the original
\* endpoint descriptors of the endpoint array.
C18_NoOriginalEndpointAfterLaunch ==
    \A c \in Stages : ch[c].pc = "running" => ch[c].open = {}

\* C20: no step changes the parent's token sequence, a step changes the
\* token sequence of at most one child, and a child that has not yet run
\* its segmenter still has the whole sequence, whatever the other children
\* have done to theirs.
C20_TokenFrame ==
    [][/\ tokens' = tokens
       /\ \A c \in Stages :
             /\ ch'[c].tokens # ch[c].tokens
                    => \A d \in Stages \ {c} : ch'[d].tokens = ch[d].tokens
             /\ ch'[c].pc = "close_unused" => ch'[c].tokens = tokens']_vars

C20_Witness ==
    /\ num_pipes = 2
    /\ Len(tokens) = 3
    /\ ch[0].pc = "rpc"
    /\ ch[0].tokens = <<>>
    /\ ch[1].pc = "terminated"
    /\ ch[2].pc = "close_unused"
    /\ ch[2].tokens = tokens

\* C19: no process calls close on an endpoint descriptor on which it has
\* already called close.
C19_NoDoubleClose == ~dbl

====
